---- MODULE Spec2Model ----
(***************************************************************************)
(* Model of deepspeed/runtime/config_utils.py:                             *)
(*   - DeepSpeedConfigModel.__init__, _deprecated_fields_check and         *)
(*     _process_deprecated_field (specification Spec),                     *)
(*   - ScientificNotationEncoder.iterencode (specification SpecEnc),       *)
(*   - dict_raise_error_on_duplicate_keys (specification SpecDup).         *)
(*                                                                         *)
(* Python values are tagged tuples: <<"int", n>>, <<"str", s>>,            *)
(* <<"dict", f>> for a raw nested mapping, <<"obj", id>> for a reference   *)
(* to a constructed model object.                                          *)
(***************************************************************************)
EXTENDS Integers, Sequences, FiniteSets, TLC

VARIABLES
    model_fields,   \* type(self).model_fields: the declared fields, in declaration order
    strict,         \* the strict argument of __init__
    data,           \* the **data argument of __init__ (the raw mapping)
    pc,             \* "new" | "check" (inside _deprecated_fields_check) | "done" | "raised"
    err,            \* the exception that left __init__, "" if none
    attrs,          \* attrs[o][f]: the instance __dict__ of object o ("self", "sub")
    fields_set,     \* fields_set[o]: model_fields_set of object o
    idx,            \* position of the loop of _deprecated_fields_check in model_fields
    log,            \* what was handed to logger.warning / logger.error, in order
    indent,         \* self.indent of the ScientificNotationEncoder
    o,              \* the argument of ScientificNotationEncoder.iterencode
    text,           \* the string iterencode returned, "" before the call
    ordered_pairs,  \* the argument of dict_raise_error_on_duplicate_keys
    result          \* what dict_raise_error_on_duplicate_keys returned or raised

cfgvars == <<model_fields, strict, data, pc, err, attrs, fields_set, idx, log>>
encvars == <<indent, o, text>>
dupvars == <<ordered_pairs, result>>
vars == <<model_fields, strict, data, pc, err, attrs, fields_set, idx, log,
          indent, o, text, ordered_pairs, result>>

(***************************************************************************)
(* Bounds                                                                  *)
(***************************************************************************)
\* integers supplied in a raw mapping range over 0..MaxInt
MaxInt == 1

(***************************************************************************)
(* Values                                                                  *)
(***************************************************************************)
IntV(n) == <<"int", n>>
StrV(s) == <<"str", s>>
ObjV(id) == <<"obj", id>>
DictV(f) == <<"dict", f>>
\* the sentinel the filter of __init__ compares against
AutoV == StrV("auto")
\* the attribute is not in the instance __dict__ (after delattr)
NoAttr == <<"noattr", 0>>
\* the key is not in the raw mapping
Absent == <<"absent", 0>>
\* validation of a value failed
Invalid == <<"invalid", 0>>
\* a call raised
Raised == <<"raised", 0>>

\* decimal strings that int() and the lax int validator parse
IsNumeric(s) == \E n \in 0..MaxInt : ToString(n) = s
ParseInt(s) == CHOOSE n \in 0..MaxInt : ToString(n) = s

(***************************************************************************)
(* Declared fields.  A field is a record                                   *)
(*   name, type ("int" | "str" | "sub"), default, frozen, and the          *)
(*   json_schema_extra keys deprecated, deprecated_msg, new_param (the     *)
(*   dotted path, as the tuple of its segments: <<>> is the empty string), *)
(*   set_new_param, new_param_fn ("id" is lambda x: x, "int" is            *)
(*   lambda x: int(x) of the class docstring).                             *)
(***************************************************************************)
Field(name, type, default) ==
    [name |-> name, type |-> type, default |-> default, frozen |-> FALSE,
     deprecated |-> FALSE, deprecated_msg |-> "", new_param |-> <<>>,
     set_new_param |-> TRUE, new_param_fn |-> "id"]

\* the fields of the sub-config a dotted new_param reaches
SubFields == << Field("x", "int", IntV(0)) >>

\* new_param values of the deprecated field "old"
NewParams == { <<>>, <<"new">>, <<"old2">>, <<"sub", "x">> }

OldField(np, snp, fn, fz, dflt) ==
    [Field("old", "str", StrV(dflt)) EXCEPT
        !.deprecated = TRUE, !.new_param = np, !.set_new_param = snp,
        !.new_param_fn = fn, !.frozen = fz]

Old2Field ==
    [Field("old2", "int", IntV(0)) EXCEPT
        !.deprecated = TRUE, !.new_param = <<"new">>]

NewField == Field("new", "int", IntV(0))

ReplaceMethodField ==
    [Field("replace_method", "str", AutoV) EXCEPT
        !.deprecated = TRUE, !.deprecated_msg = "no longer needed"]

SubField == Field("sub", "sub", DictV(<<>>))

\* the declared models explored: "old" declared before or after "old2"
Schemas ==
    { IF first
        THEN << OldField(np, snp, fn, fz, dflt), Old2Field, NewField, ReplaceMethodField, SubField >>
        ELSE << NewField, Old2Field, OldField(np, snp, fn, fz, dflt), SubField, ReplaceMethodField >>
      : first \in BOOLEAN, np \in NewParams, snp \in BOOLEAN, fn \in {"id", "int"},
        fz \in BOOLEAN, dflt \in {"0", "DS"} }

FieldNames(fs) == { fs[k].name : k \in 1..Len(fs) }
FieldOf(fs, name) == fs[CHOOSE k \in 1..Len(fs) : fs[k].name = name]

\* the declared fields of object id
FieldsOfObj(id) == IF id = "self" THEN model_fields ELSE SubFields

(***************************************************************************)
(* Raw mappings                                                            *)
(***************************************************************************)
RawInts == { IntV(n) : n \in 0..MaxInt }
RawOld == { Absent, AutoV, StrV(ToString(MaxInt)), StrV("DS") }
RawOld2 == { Absent, AutoV, IntV(MaxInt) }
RawNew == { Absent, AutoV } \cup RawInts
RawReplaceMethod == { Absent, AutoV, StrV("DS") }
RawSub == { Absent, DictV(<<>>), DictV([k \in {"x"} |-> IntV(MaxInt)]) }
RawUnknown == { Absent, IntV(0) }

\* the mapping with the keys whose choice is not Absent
MkData(c) == [k \in { n \in DOMAIN c : c[n] # Absent } |-> c[k]]

(***************************************************************************)
(* pydantic validation (super().__init__, validate_assignment)             *)
(***************************************************************************)
\* lax-mode validation of value v for a field of the given type
ValidateValue(type, v) ==
    CASE type = "int" /\ v[1] = "int" -> v
      [] type = "int" /\ v[1] = "str" /\ IsNumeric(v[2]) -> IntV(ParseInt(v[2]))
      [] type = "str" /\ v[1] = "str" -> v
      [] type = "sub" /\ v[1] = "dict" -> ObjV("sub")
      [] OTHER -> Invalid

\* the filter without the exception for replace_method
FilterAuto_NoException(st, d) ==
    IF ~st
      THEN [k \in { n \in DOMAIN d : d[n] # AutoV } |-> d[k]]
      ELSE d

\* __init__ line 56: the entries that reach validation
FilterAuto(st, d) ==
    IF ~st
      THEN [k \in { n \in DOMAIN d : d[n] # AutoV \/ n = "replace_method" } |-> d[k]]
      ELSE d

\* the value validation gives field f from the mapping d (the default when absent)
FieldValue(f, d) ==
    IF f.name \in DOMAIN d THEN ValidateValue(f.type, d[f.name])
    ELSE ValidateValue(f.type, f.default)

\* the raw mapping the sub-config is built from
SubData(d) == IF "sub" \in DOMAIN d THEN d["sub"][2] ELSE <<>>

\* extra="forbid", and every supplied value validates
ValidationOk(fs, d) ==
    /\ DOMAIN d \subseteq FieldNames(fs)
    /\ \A k \in 1..Len(fs) : FieldValue(fs[k], d) # Invalid
    /\ DOMAIN SubData(d) \subseteq FieldNames(SubFields)
    /\ \A k \in 1..Len(SubFields) : FieldValue(SubFields[k], SubData(d)) # Invalid

(***************************************************************************)
(* new_param_fn                                                            *)
(***************************************************************************)
ApplyFn(fn, v) ==
    CASE v = NoAttr -> Raised
      [] fn = "id" -> v
      [] fn = "int" /\ v[1] = "int" -> v
      [] fn = "int" /\ v[1] = "str" /\ IsNumeric(v[2]) -> IntV(ParseInt(v[2]))
      [] OTHER -> Raised

(***************************************************************************)
(* Log entries                                                             *)
(***************************************************************************)
Warning(dep_field, new_field, dep_msg) ==
    [level |-> "warning", field |-> dep_field, use |-> new_field, msg |-> dep_msg, op |-> "deprecated"]
ErrorRemove(dep_field) ==
    [level |-> "error", field |-> dep_field, use |-> <<>>, msg |-> "", op |-> "removing"]
\* the failed assignment reported below error level
ErrorSet_AsWarning(dep_field, new_field) ==
    [level |-> "warning", field |-> dep_field, use |-> new_field, msg |-> "", op |-> "setting"]
ErrorSet(dep_field, new_field) ==
    [level |-> "error", field |-> dep_field, use |-> new_field, msg |-> "", op |-> "setting"]

(***************************************************************************)
(* DeepSpeedConfigModel                                                    *)
(***************************************************************************)
NoObj == [k \in {} |-> NoAttr]

\* no encoder call and no duplicate-key call is in progress
EncIdle == indent = <<"None">> /\ o = <<"null">> /\ text = ""
DupIdle == ordered_pairs = <<>> /\ result = <<"none">>
\* no model is under construction
CfgIdle ==
    /\ model_fields = <<>> /\ strict = FALSE /\ data = <<>> /\ pc = "idle" /\ err = ""
    /\ attrs = [id \in {"self", "sub"} |-> NoObj]
    /\ fields_set = [id \in {"self", "sub"} |-> {}]
    /\ idx = 0 /\ log = <<>>

Init ==
    /\ model_fields \in Schemas
    /\ strict \in BOOLEAN
    /\ \E c_old \in RawOld, c_old2 \in RawOld2, c_new \in RawNew,
          c_rm \in RawReplaceMethod, c_sub \in RawSub, c_unk \in RawUnknown :
          data = MkData([n \in {"old", "old2", "new", "replace_method", "sub", "unknown"} |->
                           CASE n = "old" -> c_old
                             [] n = "old2" -> c_old2
                             [] n = "new" -> c_new
                             [] n = "replace_method" -> c_rm
                             [] n = "sub" -> c_sub
                             [] OTHER -> c_unk])
    /\ pc = "new"
    /\ err = ""
    /\ attrs = [id \in {"self", "sub"} |-> NoObj]
    /\ fields_set = [id \in {"self", "sub"} |-> {}]
    /\ idx = 0
    /\ log = <<>>
    /\ EncIdle
    /\ DupIdle

\* __init__ lines 55-57: the filter and super().__init__(**data), which succeeds
InitValidate ==
    /\ pc = "new"
    /\ LET d == FilterAuto(strict, data) IN
         /\ ValidationOk(model_fields, d)
         /\ attrs' = [id \in {"self", "sub"} |->
                        IF id = "self"
                          THEN [n \in FieldNames(model_fields) |-> FieldValue(FieldOf(model_fields, n), d)]
                          ELSE [n \in FieldNames(SubFields) |-> FieldValue(FieldOf(SubFields, n), SubData(d))]]
         /\ fields_set' = [id \in {"self", "sub"} |->
                             IF id = "self" THEN DOMAIN d ELSE DOMAIN SubData(d)]
    /\ pc' = "check"
    /\ idx' = 1
    /\ UNCHANGED <<model_fields, strict, data, err, log, encvars, dupvars>>

\* __init__ lines 55-57: super().__init__(**data) raises ValidationError
InitInvalid ==
    /\ pc = "new"
    /\ ~ValidationOk(model_fields, FilterAuto(strict, data))
    /\ pc' = "raised"
    /\ err' = "ValidationError"
    /\ UNCHANGED <<model_fields, strict, data, attrs, fields_set, idx, log, encvars, dupvars>>

\* reduce(getattr, new_param_nested[:-1], pydantic_config): the object the path reaches,
\* "" when a getattr on the way fails
RECURSIVE Resolve(_, _)
Resolve(id, path) ==
    IF path = <<>> THEN id
    ELSE LET v == IF Head(path) \in DOMAIN attrs[id] THEN attrs[id][Head(path)] ELSE NoAttr IN
         IF v[1] = "obj" THEN Resolve(v[2], Tail(path)) ELSE ""

\* setattr(pydantic_config, new_param_name, param_value) under validate_assignment:
\* the validated value, Invalid when the assignment raises
AssignValue(id, name, v) ==
    IF name \notin FieldNames(FieldsOfObj(id)) THEN Invalid
    ELSE IF FieldOf(FieldsOfObj(id), name).frozen THEN Invalid
    ELSE ValidateValue(FieldOf(FieldsOfObj(id), name).type, v)

\* delattr that leaves the value in place
DelAttr_Keep(a, id, name) == a
\* delattr(pydantic_config, dep_field), line 76: the value leaves the instance __dict__
DelAttr(a, id, name) == [a EXCEPT ![id][name] = NoAttr]

\* the assert that never fires
IsSet_Never(fs, id, name) == FALSE
\* name in fields_set, lines 69 and 90; fields_set is the live set of the object
IsSet(fs, id, name) == name \in fs[id]

\* the outcome of _process_deprecated_field(dep_field), lines 60-97, as the record
\* of the new err, attrs, fields_set and log (err = "" when it returns)
ProcessDeprecatedField(f) ==
    LET dep_field == f.name
        cur == attrs["self"][dep_field]
        param_value == ApplyFn(f.new_param_fn, cur)
        new_field == f.new_param
        warned == Append(log, Warning(dep_field, new_field, f.deprecated_msg))
        same == [err |-> "", attrs |-> attrs, fields_set |-> fields_set, log |-> log]
        new_param_nested == new_field
        owner == Resolve("self", SubSeq(new_param_nested, 1, Len(new_param_nested) - 1))
        new_param_name == new_param_nested[Len(new_param_nested)]
        removed == DelAttr(attrs, "self", dep_field)
        assigned == AssignValue(owner, new_param_name, param_value)
    IN
    IF param_value = Raised
      THEN [same EXCEPT !.err = "ValueError"]                                   \* line 66
    ELSE IF ~IsSet(fields_set, "self", dep_field)
      THEN same                                                                 \* line 69
    ELSE IF ~(new_field # <<>> /\ f.set_new_param)
      THEN [same EXCEPT !.log = warned]                                         \* line 73
    ELSE IF f.frozen
      THEN [same EXCEPT !.err = "ValidationError",                              \* lines 77-79
                        !.log = Append(warned, ErrorRemove(dep_field))]
    ELSE IF owner = ""
      THEN [same EXCEPT !.err = "AttributeError", !.attrs = removed,            \* line 86
                        !.log = warned]
    ELSE IF IsSet(fields_set, owner, new_param_name)
      THEN [same EXCEPT !.err = "AssertionError", !.attrs = removed,            \* lines 89-91
                        !.log = warned]
    ELSE IF assigned = Invalid
      THEN [same EXCEPT !.err = "ValidationError", !.attrs = removed,           \* lines 95-97
                        !.log = Append(warned, ErrorSet(dep_field, new_field))]
    ELSE [err |-> "",                                                           \* line 94
          attrs |-> [removed EXCEPT ![owner][new_param_name] = assigned],
          fields_set |-> [fields_set EXCEPT ![owner] = @ \cup {new_param_name}],
          log |-> warned]

\* _deprecated_fields_check, lines 101-102: a field that is not deprecated is passed over
SkipField ==
    /\ pc = "check"
    /\ idx <= Len(model_fields)
    /\ ~model_fields[idx].deprecated
    /\ idx' = idx + 1
    /\ UNCHANGED <<model_fields, strict, data, pc, err, attrs, fields_set, log, encvars, dupvars>>

\* _deprecated_fields_check, line 103: _process_deprecated_field returns
ProcessField ==
    /\ pc = "check"
    /\ idx <= Len(model_fields)
    /\ model_fields[idx].deprecated
    /\ LET r == ProcessDeprecatedField(model_fields[idx]) IN
         /\ r.err = ""
         /\ attrs' = r.attrs
         /\ fields_set' = r.fields_set
         /\ log' = r.log
    /\ idx' = idx + 1
    /\ UNCHANGED <<model_fields, strict, data, pc, err, encvars, dupvars>>

\* _deprecated_fields_check, line 103: _process_deprecated_field raises, and so does __init__
ProcessFieldRaises ==
    /\ pc = "check"
    /\ idx <= Len(model_fields)
    /\ model_fields[idx].deprecated
    /\ LET r == ProcessDeprecatedField(model_fields[idx]) IN
         /\ r.err # ""
         /\ err' = r.err
         /\ attrs' = r.attrs
         /\ fields_set' = r.fields_set
         /\ log' = r.log
    /\ pc' = "raised"
    /\ UNCHANGED <<model_fields, strict, data, idx, encvars, dupvars>>

\* __init__ returns the constructed model
Return ==
    /\ pc = "check"
    /\ idx > Len(model_fields)
    /\ pc' = "done"
    /\ UNCHANGED <<model_fields, strict, data, err, attrs, fields_set, idx, log, encvars, dupvars>>

(***************************************************************************)
(* ScientificNotationEncoder                                               *)
(*                                                                         *)
(* Encoded values: <<"bool", b>>, <<"int", n>>, <<"float", m, e>> (the     *)
(* float m * 10^e, m without trailing zeros), <<"str", s>>, <<"null">>,    *)
(* <<"map", <<k1, v1>>, ...>> as <<"map", seq of pairs>> and               *)
(* <<"seq", seq of values>>.                                               *)
(***************************************************************************)
\* the indent iterencode uses when self.indent is None
DefaultIndent == 4
\* 1e3, the bound above which a number is written with the e format
Threshold == 1000
\* digits after the point in the e format
EPrecision == 6
\* most entries of the outermost mapping or sequence
MaxLen == 2

BoolV(b) == <<"bool", b>>
FloatV(m, e) == <<"float", m, e>>
NullV == <<"null">>
MapV(items) == <<"map", items>>
SeqV(elems) == <<"seq", elems>>
NoneIndent == <<"None">>

RECURSIVE Pow10(_)
Pow10(j) == IF j = 0 THEN 1 ELSE 10 * Pow10(j - 1)

RECURSIVE Repeat(_, _)
\* s * n
Repeat(s, n) == IF n <= 0 THEN "" ELSE s \o Repeat(s, n - 1)

Abs(n) == IF n < 0 THEN 0 - n ELSE n
\* number of decimal digits of n > 0
NumDigits(n) == Len(ToString(n))
\* position of the decimal point after the first digit of m * 10^e
DecPt(m, e) == NumDigits(Abs(m)) + e

\* the exponent part of the e format and of repr: sign and at least two digits
ExpPart(x) ==
    "e" \o (IF x < 0 THEN "-" ELSE "+") \o (IF Abs(x) < 10 THEN "0" ELSE "") \o ToString(Abs(x))

\* f"{o:e}" of the positive number m * 10^e: the mantissa rounded half-even to
\* EPrecision digits after the point
FormatE(m, e) ==
    LET k == NumDigits(m)
        sig == EPrecision + 1
        q == IF k <= sig THEN m * Pow10(sig - k) ELSE m \div Pow10(k - sig)
        r == IF k <= sig THEN 0 ELSE m % Pow10(k - sig)
        half == IF k <= sig THEN 1 ELSE 5 * Pow10(k - sig - 1)
        up == r > half \/ (r = half /\ q % 2 = 1)
        q1 == IF up THEN q + 1 ELSE q
        carry == q1 = Pow10(sig)
        mant == ToString(IF carry THEN Pow10(sig - 1) ELSE q1)
        x == k - 1 + e + (IF carry THEN 1 ELSE 0)
    IN SubSeq(mant, 1, 1) \o "." \o SubSeq(mant, 2, sig) \o ExpPart(x)

\* the number written with all its digits and a decimal point, whatever its size
FixedFloat(m, e) ==
    LET s == ToString(Abs(m))
        k == Len(s)
        decpt == k + e
        sign == IF m < 0 THEN "-" ELSE ""
    IN IF m = 0 THEN "0.0"
       ELSE IF decpt <= 0 THEN sign \o "0." \o Repeat("0", 0 - decpt) \o s
       ELSE IF decpt >= k THEN sign \o s \o Repeat("0", decpt - k) \o ".0"
       ELSE sign \o SubSeq(s, 1, decpt) \o "." \o SubSeq(s, decpt + 1, k)

\* f"{o}" of the float m * 10^e: float.__repr__, which switches to an exponent
\* when the decimal point falls more than 16 digits right or 3 digits left
ReprFloat(m, e) ==
    LET s == ToString(Abs(m))
        k == Len(s)
        decpt == k + e
        sign == IF m < 0 THEN "-" ELSE ""
    IN IF m # 0 /\ (decpt <= -4 \/ decpt > 16)
         THEN sign \o SubSeq(s, 1, 1) \o (IF k > 1 THEN "." \o SubSeq(s, 2, k) ELSE "")
                   \o ExpPart(decpt - 1)
         ELSE FixedFloat(m, e)

\* the comparison with >= in place of >
GreaterThanThreshold_OrEqual(v) ==
    IF v[1] = "int" THEN v[2] >= Threshold
    ELSE v[2] > 0 /\ DecPt(v[2], v[3]) >= NumDigits(Threshold)

\* o > 1e3 (line 164)
GreaterThanThreshold(v) ==
    IF v[1] = "int" THEN v[2] > Threshold
    ELSE /\ v[2] > 0
         /\ \/ DecPt(v[2], v[3]) > NumDigits(Threshold)
            \/ DecPt(v[2], v[3]) = NumDigits(Threshold) /\ v[2] # 1

\* lines 161-167: a boolean or a number
EncodeScalar(v) ==
    IF v[1] = "bool" THEN (IF v[2] THEN "true" ELSE "false")
    ELSE IF GreaterThanThreshold(v)
      THEN (IF v[1] = "int" THEN FormatE(v[2], 0) ELSE FormatE(v[2], v[3]))
    ELSE (IF v[1] = "int" THEN ToString(v[2]) ELSE ReprFloat(v[2], v[3]))

\* line 173: json.JSONEncoder.iterencode of a string or None yields one chunk
SuperEncode(v) ==
    IF v[1] = "str" THEN "\"" \o v[2] \o "\"" ELSE "null"

RECURSIVE Join(_, _)
\* sep.join(parts)
Join(sep, parts) ==
    IF parts = <<>> THEN ""
    ELSE IF Len(parts) = 1 THEN parts[1]
    ELSE parts[1] \o sep \o Join(sep, Tail(parts))

\* the level a sequence hands to iterencode for its elements: map(self.iterencode, o)
\* calls it with one argument, so the default level=0 applies (line 172)
ElementLevel(level) == 0

RECURSIVE iterencode(_, _, _)
\* lines 156-173, ind is self.indent
iterencode(ind, v, level0) ==
    LET width == IF ind = NoneIndent THEN DefaultIndent ELSE ind[2]
        prefix_close == Repeat(" ", level0 * width)
        level == level0 + 1
        prefix == Repeat(" ", level * width)
    IN
    IF v[1] \in {"bool", "int", "float"} THEN EncodeScalar(v)
    ELSE IF v[1] = "map"
      THEN "{" \o Join(", ", [j \in 1..Len(v[2]) |->
                    "\n" \o prefix \o "\"" \o v[2][j][1] \o "\": "
                         \o iterencode(ind, v[2][j][2], level)])
               \o "\n" \o prefix_close \o "}"
    ELSE IF v[1] = "seq"
      THEN "[" \o Join(", ", [j \in 1..Len(v[2]) |->
                    iterencode(ind, v[2][j], ElementLevel(level))]) \o "]"
    ELSE SuperEncode(v)

\* the values the encoder is run on
EncInts == { -5, 0, 1, 500, 999, 1000, 1001, 2000, 12000, 12345678, 99999995 }
EncFloats == { FloatV(0, 0), FloatV(5, -1), FloatV(1, -4), FloatV(1, -5), FloatV(-1, 16),
               FloatV(-25, -1), FloatV(1, 3), FloatV(10005, -1), FloatV(15005, -1), FloatV(1, 16) }
EncScalars == { BoolV(b) : b \in BOOLEAN } \cup { IntV(n) : n \in EncInts } \cup EncFloats
                 \cup { StrV("s"), NullV }
\* the scalars found inside mappings and sequences
EncLeaves == { IntV(1), IntV(2000) }
EncKeys == << "a", "b", "c", "d" >>

\* the mappings with keys EncKeys[1..n] and the sequences of length n over vs, n <= len
Containers(vs, len) ==
    UNION { { MapV([j \in 1..n |-> <<EncKeys[j], f[j]>>]) : f \in [1..n -> vs] }
            \cup { SeqV(f) : f \in [1..n -> vs] } : n \in 0..len }

EncInner1 == EncLeaves \cup Containers(EncLeaves, 1)
EncInner2 == EncLeaves \cup Containers(EncInner1, 1)
EncValues == EncScalars \cup Containers(EncInner2, MaxLen)
EncIndents == { NoneIndent, IntV(0), IntV(2) }

InitEnc ==
    /\ CfgIdle
    /\ DupIdle
    /\ indent \in EncIndents
    /\ o \in EncValues
    /\ text = ""

\* json.dumps(o, cls=ScientificNotationEncoder): iterencode(o) returns
Encode ==
    /\ pc = "idle"
    /\ text = ""
    /\ text' = iterencode(indent, o, 0)
    /\ UNCHANGED <<cfgvars, dupvars, indent, o>>

NextEnc == Encode

SpecEnc == InitEnc /\ [][NextEnc]_vars

(***************************************************************************)
(* dict_raise_error_on_duplicate_keys                                      *)
(*                                                                         *)
(* A dict is the sequence of its <<key, value>> items in insertion order.  *)
(***************************************************************************)
\* most pairs handed to dict_raise_error_on_duplicate_keys
MaxPairs == 4

DupKeys == { "x", "y", "z" }
DupValues == { 1, 2 }

Keys(d) == { d[j][1] : j \in 1..Len(d) }

\* d[k] = v on a dict: a new key is appended, a known key keeps its position
SetItem(d, k, v) ==
    IF k \in Keys(d)
      THEN [j \in 1..Len(d) |-> IF d[j][1] = k THEN <<k, v>> ELSE d[j]]
      ELSE Append(d, <<k, v>>)

RECURSIVE DictOf(_)
\* dict((k, v) for k, v in ordered_pairs), line 207
DictOf(pairs) ==
    IF pairs = <<>> THEN <<>>
    ELSE LET last == pairs[Len(pairs)] IN
         SetItem(DictOf(SubSeq(pairs, 1, Len(pairs) - 1)), last[1], last[2])

RECURSIVE Counter(_)
\* collections.Counter([pair[0] for pair in ordered_pairs]), line 209
Counter(pairs) ==
    IF pairs = <<>> THEN <<>>
    ELSE LET c == Counter(SubSeq(pairs, 1, Len(pairs) - 1))
             k == pairs[Len(pairs)][1]
         IN IF k \in Keys(c)
              THEN [j \in 1..Len(c) |-> IF c[j][1] = k THEN <<k, c[j][2] + 1>> ELSE c[j]]
              ELSE Append(c, <<k, 1>>)

\* value >= 1 in place of value > 1
IsDuplicate_AtLeastOnce(value) == value >= 1
\* value > 1, line 210
IsDuplicate(value) == value > 1

RECURSIVE DuplicateKeys(_)
\* [key for key, value in counter.items() if value > 1], line 210
DuplicateKeys(counter) ==
    IF counter = <<>> THEN <<>>
    ELSE (IF IsDuplicate(counter[1][2]) THEN <<counter[1][1]>> ELSE <<>>)
           \o DuplicateKeys(Tail(counter))

\* lines 205-212
dict_raise_error_on_duplicate_keys(pairs) ==
    LET d == DictOf(pairs) IN
    IF Len(d) # Len(pairs)
      THEN <<"ValueError", DuplicateKeys(Counter(pairs))>>
      ELSE <<"dict", d>>

InitDup ==
    /\ CfgIdle
    /\ EncIdle
    /\ ordered_pairs \in UNION { [1..n -> DupKeys \X DupValues] : n \in 0..MaxPairs }
    /\ result = <<"none">>

\* json.loads(..., object_pairs_hook=dict_raise_error_on_duplicate_keys)
CheckDuplicateKeys ==
    /\ pc = "idle"
    /\ result = <<"none">>
    /\ result' = dict_raise_error_on_duplicate_keys(ordered_pairs)
    /\ UNCHANGED <<cfgvars, encvars, ordered_pairs>>

NextDup == CheckDuplicateKeys

SpecDup == InitDup /\ [][NextDup]_vars

Next ==
    \/ InitValidate
    \/ InitInvalid
    \/ SkipField
    \/ ProcessField
    \/ ProcessFieldRaises
    \/ Return

Spec == Init /\ [][Next]_vars

\* a few renderings the Python interpreter gives
EncExamples ==
    /\ iterencode(NoneIndent, IntV(12000), 0) = "1.200000e+04"
    /\ iterencode(NoneIndent, IntV(500), 0) = "500"
    /\ iterencode(NoneIndent, BoolV(TRUE), 0) = "true"
    /\ iterencode(NoneIndent, IntV(12345678), 0) = "1.234568e+07"
    /\ iterencode(NoneIndent, IntV(99999995), 0) = "1.000000e+08"
    /\ iterencode(NoneIndent, FloatV(15005, -1), 0) = "1.500500e+03"
    /\ iterencode(NoneIndent, FloatV(1, 3), 0) = "1000.0"
    /\ iterencode(NoneIndent, FloatV(10005, -1), 0) = "1.000500e+03"
    /\ iterencode(NoneIndent, FloatV(1, -5), 0) = "1e-05"
    /\ iterencode(NoneIndent, FloatV(1, -4), 0) = "0.0001"
    /\ iterencode(NoneIndent, FloatV(-1, 16), 0) = "-1e+16"
    /\ iterencode(NoneIndent, FloatV(-25, -1), 0) = "-2.5"
    /\ iterencode(NoneIndent, FloatV(1, 16), 0) = "1.000000e+16"
    /\ iterencode(NoneIndent, MapV(<< <<"a", IntV(1200)>>, <<"b", SeqV(<<IntV(1), IntV(2000)>>)>> >>), 0)
         = "{\n    \"a\": 1.200000e+03, \n    \"b\": [1, 2.000000e+03]\n}"
    /\ iterencode(NoneIndent, MapV(<< <<"a", SeqV(<< MapV(<< <<"b", IntV(1)>> >>) >>)>> >>), 0)
         = "{\n    \"a\": [{\n    \"b\": 1\n}]\n}"
    /\ iterencode(NoneIndent, MapV(<< <<"a", MapV(<< <<"b", IntV(1)>> >>)>> >>), 0)
         = "{\n    \"a\": {\n        \"b\": 1\n    }\n}"
    /\ dict_raise_error_on_duplicate_keys(<< <<"x", 1>>, <<"x", 2>> >>) = <<"ValueError", <<"x">> >>
    /\ dict_raise_error_on_duplicate_keys(<< <<"x", 1>>, <<"y", 2>> >>) = <<"dict", << <<"x", 1>>, <<"y", 2>> >> >>

TypeOK ==
    /\ pc \in {"idle", "new", "check", "done", "raised"}
    /\ (pc = "raised") = (err # "")

(***************************************************************************)
(* Properties                                                              *)
(***************************************************************************)
\* the entries of the raw mapping that reach validation
Kept == FilterAuto(strict, data)
\* f forwards its value: new_param is given and set_new_param is true
Forwards(f) == f.deprecated /\ f.new_param # <<>> /\ f.set_new_param
\* the last segment of new_param and the object the preceding segments reach
TargetName(f) == f.new_param[Len(f.new_param)]
TargetOwner(f) == IF Len(f.new_param) = 1 THEN "self" ELSE f.new_param[Len(f.new_param) - 1]
TargetField(f) == FieldOf(FieldsOfObj(TargetOwner(f)), TargetName(f))
\* name is a key of the mapping d handed to object id
SuppliedIn(d, id, name) == IF id = "self" THEN name \in DOMAIN d ELSE name \in DOMAIN SubData(d)
\* the value validation gave the top-level field
ValidatedValue(name) == FieldValue(FieldOf(model_fields, name), Kept)
\* the entry is removed by the filter of __init__
Dropped(n) == ~strict /\ data[n] = AutoV /\ n # "replace_method"
\* a forwarding step of this pass has assigned the field name of object id
ForwardedInto(id, name) ==
    \E j \in 1..Len(log) :
        /\ log[j].level = "warning"
        /\ Forwards(FieldOf(model_fields, log[j].field))
        /\ TargetOwner(FieldOf(model_fields, log[j].field)) = id
        /\ TargetName(FieldOf(model_fields, log[j].field)) = name
Position(name) == CHOOSE k \in 1..Len(model_fields) : model_fields[k].name = name
Contains(s, c) == \E j \in 1..Len(s) : SubSeq(s, j, j) = c

\* C1 as stated: a returned model built from a raw mapping with the forwarding
\* deprecated field A and without its replacement B has B equal to
\* new_param_fn(value of A) and A back at its declared default.
C1_Original ==
    pc = "done" =>
        \A k \in 1..Len(model_fields) :
            LET f == model_fields[k] IN
            (Forwards(f) /\ f.name \in DOMAIN Kept /\ ~SuppliedIn(data, TargetOwner(f), TargetName(f)))
              => /\ attrs[TargetOwner(f)][TargetName(f)] = ApplyFn(f.new_param_fn, ValidatedValue(f.name))
                 /\ attrs["self"][f.name] = f.default

\* C1 amended: in a returned model, every forwarding deprecated field A that
\* reached validation has had its value removed from the instance (it is not
\* at its default) and is still marked as set, and its replacement B, unless B
\* is itself a forwarding deprecated field, holds the validated
\* new_param_fn(value of A) and is marked as set, on the sub-object for a
\* dotted new_param.
C1_Forwarded ==
    pc = "done" =>
        \A k \in 1..Len(model_fields) :
            LET f == model_fields[k] IN
            (Forwards(f) /\ f.name \in DOMAIN Kept)
              => /\ attrs["self"][f.name] = NoAttr
                 /\ f.name \in fields_set["self"]
                 /\ ~Forwards(TargetField(f))
                      => /\ attrs[TargetOwner(f)][TargetName(f)]
                              = ValidateValue(TargetField(f).type,
                                              ApplyFn(f.new_param_fn, ValidatedValue(f.name)))
                         /\ TargetName(f) \in fields_set[TargetOwner(f)]

\* a model is returned in which "old", converted by int(), was forwarded along a dotted path
C1_Witness ==
    /\ pc = "done"
    /\ "old" \in DOMAIN data
    /\ "sub" \in DOMAIN data
    /\ LET f == FieldOf(model_fields, "old") IN
         /\ Forwards(f)
         /\ f.new_param = <<"sub", "x">>
         /\ f.new_param_fn = "int"
    /\ attrs["sub"]["x"] = IntV(MaxInt)
    /\ attrs["self"]["old"] = NoAttr

\* C2 as stated: no model is returned when a deprecated field and the field
\* its new_param names both reach validation.
C2_Original ==
    pc = "done" =>
        ~\E k \in 1..Len(model_fields) :
            LET f == model_fields[k] IN
            /\ f.deprecated
            /\ f.new_param # <<>>
            /\ f.name \in DOMAIN Kept
            /\ SuppliedIn(Kept, TargetOwner(f), TargetName(f))

\* C2 amended: when a forwarding deprecated field (set_new_param true) and its
\* replacement both reach validation, no model is returned, and the pass stops
\* at that field with the conflict error unless new_param_fn or the removal
\* failed first.
C2_Conflict ==
    /\ pc = "done" =>
         ~\E k \in 1..Len(model_fields) :
             LET f == model_fields[k] IN
             /\ Forwards(f)
             /\ f.name \in DOMAIN Kept
             /\ SuppliedIn(Kept, TargetOwner(f), TargetName(f))
    /\ (pc = "raised" /\ idx >= 1) =>
         LET f == model_fields[idx] IN
         (/\ Forwards(f)
          /\ f.name \in DOMAIN Kept
          /\ SuppliedIn(Kept, TargetOwner(f), TargetName(f))
          /\ ~f.frozen
          /\ ApplyFn(f.new_param_fn, ValidatedValue(f.name)) # Raised)
           => /\ err = "AssertionError"
              /\ log[Len(log)] = Warning(f.name, f.new_param, f.deprecated_msg)

\* construction stopped with the conflict error for a dotted new_param
C2_Witness ==
    /\ pc = "raised"
    /\ err = "AssertionError"
    /\ model_fields[idx].name = "old"
    /\ model_fields[idx].new_param = <<"sub", "x">>
    /\ "old" \in DOMAIN data
    /\ "x" \in DOMAIN SubData(data)

C4_Surfaced ==
    /\ pc = "done" => \A j \in 1..Len(log) : log[j].level # "error"
    /\ (pc = "raised" /\ idx >= 1 /\ err = "ValidationError") =>
         LET f == model_fields[idx]
             e == log[Len(log)]
         IN /\ Len(log) >= 2
            /\ e.level = "error"
            /\ e.field = f.name
            /\ e.op = (IF f.frozen THEN "removing" ELSE "setting")
            /\ log[Len(log) - 1] = Warning(f.name, f.new_param, f.deprecated_msg)
            /\ \A j \in 1..Len(log) : Position(log[j].field) <= idx

\* the assignment of the forwarded value failed and was logged
C4_Witness ==
    /\ pc = "raised"
    /\ err = "ValidationError"
    /\ idx >= 1
    /\ ~model_fields[idx].frozen
    /\ log[Len(log)].op = "setting"
    /\ attrs["self"][model_fields[idx].name] = NoAttr

\* C5: when some key occurs more than once the call fails and lists exactly
\* the keys that occur more than once, each once; otherwise it returns the
\* given pairs, in their order.
C5_DuplicateKeys ==
    result # <<"none">> =>
        LET occ(k) == Cardinality({ j \in 1..Len(ordered_pairs) : ordered_pairs[j][1] = k })
            dups == { k \in DupKeys : occ(k) > 1 }
        IN IF dups # {}
             THEN /\ result[1] = "ValueError"
                  /\ { result[2][j] : j \in 1..Len(result[2]) } = dups
                  /\ Len(result[2]) = Cardinality(dups)
             ELSE result = <<"dict", ordered_pairs>>

\* the call failed listing two keys
C5_Witness ==
    /\ result[1] = "ValueError"
    /\ Len(result[2]) = 2
    /\ Len(ordered_pairs) = 4

\* the level a sequence would hand on if it kept the nesting depth
KeepLevel(level) == level

RECURSIVE RenderByDepth(_, _, _)
\* the rendering C6 describes: as iterencode, with the nesting depth kept
\* through sequences
RenderByDepth(ind, v, level0) ==
    LET width == IF ind = NoneIndent THEN DefaultIndent ELSE ind[2]
        prefix_close == Repeat(" ", level0 * width)
        level == level0 + 1
        prefix == Repeat(" ", level * width)
    IN
    IF v[1] \in {"bool", "int", "float"} THEN EncodeScalar(v)
    ELSE IF v[1] = "map"
      THEN "{" \o Join(", ", [j \in 1..Len(v[2]) |->
                    "\n" \o prefix \o "\"" \o v[2][j][1] \o "\": "
                         \o RenderByDepth(ind, v[2][j][2], level)])
               \o "\n" \o prefix_close \o "}"
    ELSE IF v[1] = "seq"
      THEN "[" \o Join(", ", [j \in 1..Len(v[2]) |->
                    RenderByDepth(ind, v[2][j], KeepLevel(level0))]) \o "]"
    ELSE SuperEncode(v)

\* C6 as stated: the entries of every mapping, those reached through sequences
\* included, are indented by their nesting depth.
C6_Original == text # "" => text = RenderByDepth(indent, o, 0)

\* the number is greater than 1000, computed on the decimal value
ExactGreater(v) ==
    IF v[1] = "int" THEN v[2] > 1000
    ELSE IF v[3] >= 0
      THEN (IF v[3] > 5 THEN v[2] > 0 ELSE v[2] * Pow10(v[3]) > 1000)
      ELSE v[2] > 1000 * Pow10(0 - v[3])

\* the number written with all its digits, without an exponent
PlainDecimal(v) == IF v[1] = "int" THEN ToString(v[2]) ELSE FixedFloat(v[2], v[3])

\* C7 as stated: a boolean is written true or false, a number greater than
\* 1000 with an exponent, and every number up to 1000 as its plain decimal
\* string.
C7_Original ==
    text # "" =>
        /\ o[1] = "bool" => text = (IF o[2] THEN "true" ELSE "false")
        /\ (o[1] \in {"int", "float"} /\ ExactGreater(o)) => Contains(text, "e")
        /\ (o[1] \in {"int", "float"} /\ ~ExactGreater(o)) => text = PlainDecimal(o)

\* C7 amended: a boolean is written true or false; a number greater than 1000
\* is written with an exponent; an integer up to 1000 is written as its
\* decimal digits; a float up to 1000 is written as float.__repr__ writes it,
\* which is the plain decimal string exactly when the float is zero or its
\* magnitude is at least 1e-4 and below 1e16.
C7_Scalars ==
    text # "" =>
        /\ o[1] = "bool" => text = (IF o[2] THEN "true" ELSE "false")
        /\ (o[1] \in {"int", "float"} /\ ExactGreater(o))
             => /\ Contains(text, "e")
                /\ Contains(text, ".")
                /\ Len(text) = EPrecision + 6
        /\ (o[1] = "int" /\ ~ExactGreater(o)) => text = ToString(o[2])
        /\ (o[1] = "float" /\ ~ExactGreater(o))
             => IF o[2] = 0 \/ (DecPt(o[2], o[3]) > -4 /\ DecPt(o[2], o[3]) <= 16)
                  THEN text = PlainDecimal(o)
                  ELSE Contains(text, "e") /\ text # PlainDecimal(o)

\* 1000 itself is written without an exponent, and a small float with one
C7_Witness ==
    \/ o = IntV(1000) /\ text = "1000"
    \/ o = FloatV(1, -5) /\ text = "1e-05"

\* C8 as stated: processing a supplied deprecated field that has no new_param,
\* or has set_new_param false, only appends the deprecation warning.
C8_Original ==
    [][ (/\ pc = "check"
         /\ idx <= Len(model_fields)
         /\ model_fields[idx].deprecated
         /\ model_fields[idx].name \in DOMAIN data
         /\ model_fields[idx].name \in fields_set["self"]
         /\ ~Forwards(model_fields[idx]))
        => /\ pc' = "check"
           /\ attrs' = attrs
           /\ fields_set' = fields_set
           /\ log' = Append(log, Warning(model_fields[idx].name, model_fields[idx].new_param,
                                         model_fields[idx].deprecated_msg)) ]_vars

\* C9 as stated: processing a deprecated field that is not in the raw mapping
\* changes nothing and cannot fail.
C9_Original ==
    [][ (/\ pc = "check"
         /\ idx <= Len(model_fields)
         /\ model_fields[idx].deprecated
         /\ model_fields[idx].name \notin DOMAIN data)
        => /\ pc' = "check"
           /\ attrs' = attrs
           /\ fields_set' = fields_set
           /\ log' = log ]_vars

\* C10 as stated: construction ends with the conflict error only if the raw
\* mapping holds the replacement field.
C10_Original ==
    (pc = "raised" /\ err = "AssertionError") =>
        SuppliedIn(data, TargetOwner(model_fields[idx]), TargetName(model_fields[idx]))
====
